---- MODULE Spec2Model ----
(***************************************************************************)
(* Model of the process_documents management command                       *)
(* (app/management/commands/process_documents.py).                         *)
(*                                                                         *)
(* Command.handle runs inside one transaction.atomic block.  It walks the  *)
(* directory listing; each file is read, sent to call_phi3_for_extraction, *)
(* and the returned dictionary is reconciled into the Project row and the  *)
(* eight lookup tables.  The store the command works on is `db`; the       *)
(* durable store, as seen once the atomic block has been left, is          *)
(* `committed`.                                                            *)
(***************************************************************************)
EXTENDS Integers, Sequences, FiniteSets, TLC

VARIABLES
    committed,        \* the durable store (what is there after the atomic block)
    db,               \* the store as seen inside the running atomic block
    phase,            \* "idle", "running", "complete", "aborted", "fatal"
    update_existing,  \* options['update'] of the current run
    remaining,        \* entries of os.listdir not yet visited by the loop
    needs_rollback,   \* the connection refuses queries until the block ends
    schema,           \* what the run has shown of the Project columns: each
                      \* accepts NULL ("null"), refuses it ("not null"), or
                      \* has not been written NULL yet ("?")
    budget,           \* directory entries the model may still visit
    last,             \* the last loop iteration of the current run
    prev,             \* the loop iteration of the current run before `last`
    runs              \* the runs of the command that work on the durable store at
                      \* the same time, each in its own atomic block

vars == <<committed, db, phase, update_existing, remaining, needs_rollback,
          schema, budget, last, prev, runs>>

(***************************************************************************)
(* Bounds of the model.                                                    *)
(***************************************************************************)
MaxFiles == 2     \* directory entries visited over all runs
NumRuns == 2      \* runs of the command that work at the same time

(***************************************************************************)
(* JSON values of extracted_data.  A scalar key holds a string; MISSING    *)
(* stands for "the key is not in the dictionary" and None for JSON null.   *)
(* A list key holds [kind, items]: kind "missing" (no key), "null",        *)
(* "list" (a JSON array, items are its elements) or "number" (a non-zero   *)
(* JSON number, which Python cannot iterate).                              *)
(***************************************************************************)
MISSING == "<missing>"
None == "<None>"

FKTables == <<"Sponsor", "ResponsibleParty", "RouteOfAdmin">>
M2MTables == <<"Deliverable", "TherapeuticArea", "IngredientCategory",
               "Ingredient", "Demographics">>
FKSet == {FKTables[i] : i \in 1..Len(FKTables)}
M2MSet == {M2MTables[i] : i \in 1..Len(M2MTables)}
LookupTables == FKSet \cup M2MSet

\* The key of extracted_data that feeds each lookup model.
KeyOf ==
    [Sponsor |-> "sponsor_name", ResponsibleParty |-> "responsible_party",
     RouteOfAdmin |-> "route_of_admin", Deliverable |-> "deliverables",
     TherapeuticArea |-> "therapeutic_areas",
     IngredientCategory |-> "ingredient_categories",
     Ingredient |-> "ingredients", Demographics |-> "demographics"]

ScalarKeys == {"project_id", "project_name", "project_status", "sponsor_name",
               "responsible_party", "route_of_admin"}
ListKeys == {KeyOf[t] : t \in M2MSet}

LMissing == [kind |-> "missing", items |-> <<>>]
LNull == [kind |-> "null", items |-> <<>>]
LNumber == [kind |-> "number", items |-> <<>>]
L(items) == [kind |-> "list", items |-> items]

\* Python truth value of a scalar JSON value / of a list-key value.
Truthy(v) == v \notin {MISSING, None, ""}
TruthyList(lv) == (lv.kind = "list" /\ Len(lv.items) > 0) \/ lv.kind = "number"

\* dict.get(key, default) on a scalar key: the default only when the key is absent.
Get(data, key, default) == IF data[key] = MISSING THEN default ELSE data[key]

\* The dictionary {} : no key at all.
EmptyObject ==
    [project_id |-> MISSING, project_name |-> MISSING, project_status |-> MISSING,
     sponsor_name |-> MISSING, responsible_party |-> MISSING,
     route_of_admin |-> MISSING, deliverables |-> LMissing,
     therapeutic_areas |-> LMissing, ingredient_categories |-> LMissing,
     ingredients |-> LMissing, demographics |-> LMissing]

\* `not extracted_data` for a dictionary: true exactly for {}.
IsEmptyDict(data) ==
    /\ \A k \in ScalarKeys : data[k] = MISSING
    /\ \A k \in ListKeys : data[k].kind = "missing"

(***************************************************************************)
(* The store: Project rows and the rows of the eight lookup models.        *)
(* A Project row carries its three foreign keys (0 is NULL) and its five   *)
(* many-to-many sets, each holding primary keys of lookup rows.            *)
(***************************************************************************)
EmptyStore == [Project |-> {}, tables |-> [t \in LookupTables |-> {}]]

SetMax(S) == CHOOSE x \in S : \A y \in S : y <= x
NextPk(rows) == IF rows = {} THEN 1 ELSE SetMax({r.pk : r \in rows}) + 1

\* The value a column takes when a row is built without it: the default of
\* the field, which the command never names.
DEFAULT == "<default>"

\* The Project columns the command writes JSON scalars to.  Whether they accept
\* NULL is decided by app.models; the model explores both answers.
NullCols == {"project_name", "project_status"}

NewProject(pk, project_id, project_name) ==
    [pk |-> pk, project_id |-> project_id, project_name |-> project_name,
     project_status |-> DEFAULT,
     fk |-> [t \in FKSet |-> 0], m2m |-> [t \in M2MSet |-> {}]]

NoProject == NewProject(0, "", "")

(***************************************************************************)
(* One pass through the try block works on a context: the store, the       *)
(* in-memory `project` object (obj), the exception raised so far (exc,     *)
(* "" when none), whether the connection already refuses queries (broken), *)
(* the Project columns assumed to accept NULL (nullcols) and the columns   *)
(* the pass tried to write NULL to (tested).  `marked` says                *)
(* that the error was raised inside save(), clear() or add(), which flag   *)
(* the enclosing atomic block for rollback; get_or_create runs its insert  *)
(* under a savepoint of its own and leaves the block usable.               *)
(***************************************************************************)
NewContext(store, broken, nullcols) ==
    [db |-> store, obj |-> NoProject, created |-> FALSE, ret |-> 0, exc |-> "",
     broken |-> broken, nullcols |-> nullcols, tested |-> {}, marked |-> FALSE,
     outcome |-> ""]

Raise(ctx, e) == [ctx EXCEPT !.exc = e]

\* An error inside save(), clear() or add() marks the atomic block for rollback.
Mark(ctx) == IF ctx.exc # "" THEN [ctx EXCEPT !.marked = TRUE] ELSE ctx

\* Issue one storage operation: it raises when the atomic block is already
\* marked for rollback.
Query(ctx) ==
    IF ctx.broken THEN Raise(ctx, "TransactionManagementError") ELSE ctx

\* Mutant of get_or_create: Model.objects.create(name=name), with no lookup first.
get_or_create_always_creates(ctx, table, name) ==
    LET c == Query(ctx)
        pk == NextPk(c.db.tables[table])
    IN  IF c.exc # "" THEN c
        ELSE [c EXCEPT !.db.tables[table] = @ \cup {[pk |-> pk, name |-> name]},
                       !.ret = pk]

\* Model.objects.get_or_create(name=name) on a lookup model: ret is the row's pk.
\* The name column of a lookup model does not accept NULL.
get_or_create(ctx, table, name) ==
    LET c == Query(ctx)
        found == {r \in c.db.tables[table] : r.name = name}
        pk == NextPk(c.db.tables[table])
    IN  IF c.exc # "" THEN c
        ELSE IF Cardinality(found) > 1 THEN Raise(c, "MultipleObjectsReturned")
        ELSE IF found # {} THEN [c EXCEPT !.ret = (CHOOSE r \in found : TRUE).pk]
        ELSE IF name = None THEN Raise(c, "IntegrityError")
        ELSE [c EXCEPT !.db.tables[table] = @ \cup {[pk |-> pk, name |-> name]},
                       !.ret = pk]

\* Mutant of project_get_or_create: Project.objects.create(...), with no lookup.
project_always_created(ctx, project_id, default_name) ==
    LET c == Query(ctx)
        row == NewProject(NextPk(c.db.Project), project_id, default_name)
    IN  IF c.exc # "" THEN c
        ELSE [c EXCEPT !.db.Project = @ \cup {row}, !.obj = row, !.created = TRUE]

\* Project.objects.get_or_create(project_id=..., defaults={'project_name': ...}).
project_get_or_create(ctx, project_id, default_name) ==
    LET c == Query(ctx)
        found == {p \in c.db.Project : p.project_id = project_id}
        row == NewProject(NextPk(c.db.Project), project_id, default_name)
        t == [c EXCEPT !.tested = @ \cup {"project_name"}]
    IN  IF c.exc # "" THEN c
        ELSE IF Cardinality(found) > 1 THEN Raise(c, "MultipleObjectsReturned")
        ELSE IF found # {}
             THEN [c EXCEPT !.obj = CHOOSE p \in found : TRUE, !.created = FALSE]
        ELSE IF default_name = None /\ "project_name" \notin c.nullcols
             THEN Raise(t, "IntegrityError")
        ELSE [(IF default_name = None THEN t ELSE c)
                 EXCEPT !.db.Project = @ \cup {row}, !.obj = row, !.created = TRUE]

\* project.save(): writes the columns of the in-memory object to its row.
save(ctx) ==
    LET q == Query(ctx)
        o == q.obj
        nulls == {col \in NullCols : o[col] = None}
        c == [q EXCEPT !.tested = @ \cup nulls]
    IN  IF q.exc # "" THEN Mark(q)
        ELSE IF ~(nulls \subseteq c.nullcols) THEN Mark(Raise(c, "IntegrityError"))
        ELSE [c EXCEPT !.db.Project =
                 {IF p.pk = o.pk
                  THEN [p EXCEPT !.project_name = o.project_name,
                                 !.project_status = o.project_status,
                                 !.fk = o.fk]
                  ELSE p : p \in @}]

\* Mutant of m2m_clear: the rows of the relation are deleted with their links.
m2m_clear_deletes(ctx, table) ==
    LET c == Query(ctx)
        linked == UNION {p.m2m[table] : p \in {x \in c.db.Project : x.pk = c.obj.pk}}
    IN  IF c.exc # "" THEN Mark(c)
        ELSE [c EXCEPT !.db.Project =
                           {[p EXCEPT !.m2m[table] = @ \ linked] : p \in @},
                       !.db.tables[table] = {r \in @ : r.pk \notin linked}]

\* Mutant of m2m_clear: the relation is not cleared before the names are added.
m2m_clear_keeps(ctx, table) == Query(ctx)

\* project.<relation>.clear()
m2m_clear(ctx, table) ==
    LET c == Query(ctx)
    IN  IF c.exc # "" THEN Mark(c)
        ELSE [c EXCEPT !.db.Project =
                 {IF p.pk = c.obj.pk THEN [p EXCEPT !.m2m[table] = {}] ELSE p : p \in @}]

\* project.<relation>.add(item)
m2m_add(ctx, table, pk) ==
    LET c == Query(ctx)
    IN  IF c.exc # "" THEN Mark(c)
        ELSE [c EXCEPT !.db.Project =
                 {IF p.pk = c.obj.pk THEN [p EXCEPT !.m2m[table] = @ \cup {pk}] ELSE p
                    : p \in @}]

\* As set_reference, but a name that is not given clears the reference.
set_reference_clears_absent(ctx, table, name) ==
    IF ctx.exc # "" THEN ctx
    ELSE IF ~Truthy(name) THEN [ctx EXCEPT !.obj.fk[table] = 0]
    ELSE LET c == get_or_create(ctx, table, name)
         IN  IF c.exc # "" THEN c ELSE [c EXCEPT !.obj.fk[table] = c.ret]

\* if name := extracted_data.get(key): row, _ = get_or_create(name); project.<fk> = row
set_reference(ctx, table, name) ==
    IF ctx.exc # "" \/ ~Truthy(name) THEN ctx
    ELSE LET c == get_or_create(ctx, table, name)
         IN  IF c.exc # "" THEN c ELSE [c EXCEPT !.obj.fk[table] = c.ret]

\* for item_name in the_list: item, _ = get_or_create(name=item_name); relation.add(item)
RECURSIVE add_items(_, _, _)
add_items(ctx, table, items) ==
    IF ctx.exc # "" \/ items = <<>> THEN ctx
    ELSE LET c1 == get_or_create(ctx, table, Head(items))
             c2 == IF c1.exc # "" THEN c1 ELSE m2m_add(c1, table, c1.ret)
         IN  add_items(c2, table, Tail(items))

\* if the_list := extracted_data.get(key, []): relation.clear(); for ...: add
replace_relation(ctx, table, lv) ==
    IF ctx.exc # "" \/ ~TruthyList(lv) THEN ctx
    ELSE LET c == m2m_clear(ctx, table)
         IN  IF c.exc # "" THEN c
             ELSE IF lv.kind = "number" THEN Raise(c, "TypeError")
             ELSE add_items(c, table, lv.items)

\* The three foreign keys, then the five many-to-many relations, in source order.
RECURSIVE set_references(_, _, _)
set_references(ctx, data, i) ==
    IF i > Len(FKTables) THEN ctx
    ELSE set_references(set_reference(ctx, FKTables[i], data[KeyOf[FKTables[i]]]),
                        data, i + 1)

RECURSIVE replace_relations(_, _, _)
replace_relations(ctx, data, i) ==
    IF i > Len(M2MTables) THEN ctx
    ELSE replace_relations(replace_relation(ctx, M2MTables[i], data[KeyOf[M2MTables[i]]]),
                           data, i + 1)

\* project.project_name = extracted_data.get('project_name', project.project_name)
\* project.project_status = extracted_data.get('project_status', project.project_status)
update_simple_fields(ctx, data) ==
    [ctx EXCEPT !.obj.project_name = Get(data, "project_name", @),
                !.obj.project_status = Get(data, "project_status", @)]

\* Mutant of NoProjectId: only a missing key counts (`'project_id' not in data`).
NoProjectIdKeyOnly(data) == data.project_id = MISSING

\* if not project_id_val (lines 138-139)
NoProjectId(data) == ~Truthy(data.project_id)

\* Mutant of SkipExisting: the else branch falls through into the update.
SkipExistingFallsThrough(created, update) == FALSE

\* Neither `if created` nor `elif update_existing` (lines 148-154)
SkipExisting(created, update) == ~created /\ ~update

\* The body of the try block for one dictionary, up to the except clause.
reconcile(store, data, update, broken, nullcols) ==
    LET c0 == NewContext(store, broken, nullcols)
        c1 == project_get_or_create(c0, data.project_id,
                                    Get(data, "project_name", ""))
        c2 == update_simple_fields(c1, data)
        c3 == set_references(c2, data, 1)
        c4 == IF c3.exc # "" THEN c3 ELSE save(c3)
        c5 == replace_relations(c4, data, 1)
    IN  IF NoProjectId(data) THEN [c0 EXCEPT !.outcome = "skipped_no_id"]
        ELSE IF c1.exc # "" THEN [c1 EXCEPT !.outcome = "error"]
        ELSE IF SkipExisting(c1.created, update)
             THEN [c1 EXCEPT !.outcome = "skipped_exists"]
        ELSE IF c5.exc # "" THEN [c5 EXCEPT !.outcome = "error"]
        ELSE [c5 EXCEPT !.outcome = IF c1.created THEN "created" ELSE "updated"]

(***************************************************************************)
(* call_phi3_for_extraction.  `reply` is what the Ollama server did:       *)
(*   request_error        the post or raise_for_status raised              *)
(*   body_not_json        response.json() could not decode the body        *)
(*   body_not_object      the body is JSON but not an object               *)
(*   response_not_string  the body's "response" member is not a string     *)
(*   response_missing     the body has no "response" member                *)
(*   response_not_json    "response" is a string that is not JSON          *)
(*   json                 "response" decodes to the JSON value `value`     *)
(* The result is the exception that leaves the function (raised, "" when   *)
(* none) or the returned value: "None", a falsy JSON value, a truthy value *)
(* that is no object, or an object with its dictionary in `data`.          *)
(***************************************************************************)
Returned(type, data) == [raised |-> "", type |-> type, data |-> data]
Raised(e) == [raised |-> e, type |-> "None", data |-> EmptyObject]

call_phi3_for_extraction(reply) ==
    CASE reply.kind \in {"request_error", "body_not_json"} ->
             Returned("None", EmptyObject)
      [] reply.kind = "body_not_object" -> Raised("AttributeError")
      [] reply.kind = "response_not_string" -> Raised("TypeError")
      [] reply.kind = "response_missing" -> Returned("object", EmptyObject)
      [] reply.kind = "response_not_json" -> Returned("None", EmptyObject)
      [] reply.kind = "json" -> Returned(reply.value, reply.data)

\* `not extracted_data` (line 132).
NotExtracted(result) ==
    \/ result.type \in {"None", "falsy"}
    \/ result.type = "object" /\ IsEmptyDict(result.data)

(***************************************************************************)
(* The inputs the model draws: the dictionaries the language model may     *)
(* return and the replies of the server.                                   *)
(***************************************************************************)
Base(id) == [EmptyObject EXCEPT !.project_id = id]

\* The scenario document of the specification and a reprocessing of it.
Scenario ==
    [Base("P-100") EXCEPT !.project_name = "Trial X", !.sponsor_name = "Acme",
                          !.ingredients = L(<<"Compound A", "Compound B">>)]
ScenarioChanged == [Base("P-100") EXCEPT !.ingredients = L(<<"Compound A">>)]

\* Dictionaries that set one key beside the identifier.
OneKey(id) ==
    {Base(id)}
    \cup {[Base(id) EXCEPT !.project_name = v] : v \in {None, "", "Trial X", "Trial Y"}}
    \cup {[Base(id) EXCEPT !.project_status = v] : v \in {None, "Open"}}
    \cup {[Base(id) EXCEPT !.sponsor_name = v] : v \in {None, "", "Acme", "ACME"}}
    \cup {[Base(id) EXCEPT !.responsible_party = "Dr. Roe"],
          [Base(id) EXCEPT !.route_of_admin = "Oral"]}
    \cup {[Base(id) EXCEPT !.deliverables = v] :
             v \in {LNull, L(<<>>), L(<<"A", "B">>), L(<<"C">>), L(<<"A", None>>),
                    LNumber}}
    \cup {[Base(id) EXCEPT !.therapeutic_areas = L(<<"Oncology">>)],
          [Base(id) EXCEPT !.ingredient_categories = L(<<"Vitamin">>)],
          [Base(id) EXCEPT !.ingredients = L(<<"Compound A">>)],
          [Base(id) EXCEPT !.demographics = L(<<"Adult">>)]}

Records ==
    OneKey("P-100")
    \cup {Scenario, ScenarioChanged}
    \cup {Base("P-200"),
          [Base("P-200") EXCEPT !.sponsor_name = "Acme"],
          [Base("P-200") EXCEPT !.sponsor_name = "ACME"],
          [Base("P-200") EXCEPT !.deliverables = L(<<"B", "C">>)],
          [Base("P-200") EXCEPT !.ingredients = L(<<"Compound B">>)]}
    \cup {Base(None), Base("")}
    \cup {[Base(id) EXCEPT !.project_name = "Trial X"] : id \in {MISSING, None, ""}}
    \cup {[Base(None) EXCEPT !.sponsor_name = "Acme"],
          [Base(MISSING) EXCEPT !.deliverables = L(<<"A", "B">>)]}

Replies ==
    {[kind |-> k, value |-> "None", data |-> EmptyObject] :
        k \in {"request_error", "body_not_json", "body_not_object",
               "response_not_string", "response_missing", "response_not_json"}}
    \cup {[kind |-> "json", value |-> v, data |-> EmptyObject] :
             v \in {"None", "falsy", "nonobject", "object"}}
    \cup {[kind |-> "json", value |-> "object", data |-> d] : d \in Records}

(***************************************************************************)
(* What the model remembers of a finished loop iteration.                  *)
(***************************************************************************)
Iteration(outcome, exc, extracted, data, before) ==
    [outcome |-> outcome,      \* how the iteration ended
     exc |-> exc,              \* the exception it raised, "" when none
     extracted |-> extracted,  \* the type of extracted_data, "" when not called
     data |-> data,            \* extracted_data when it is a dictionary
     before |-> before]        \* db when the iteration began

NoIteration == Iteration("none", "", "", EmptyObject, EmptyStore)

\* The stores the model starts from: the empty one, and the one an earlier
\* run over the scenario document has left.
SeedStores == {EmptyStore, reconcile(EmptyStore, Scenario, FALSE, FALSE, {}).db}

\* A run of the command that has not entered handle.
RunIds == 1..NumRuns
IdleRun == [pc |-> "idle", doc |-> <<>>, items |-> <<>>, own |-> {},
            project |-> NoProject, failed |-> FALSE]

Init ==
    /\ runs = [r \in RunIds |-> IdleRun]
    /\ committed \in SeedStores
    /\ db = committed
    /\ phase = "idle"
    /\ update_existing = FALSE
    /\ remaining = 0
    /\ needs_rollback = FALSE
    /\ schema = [col \in NullCols |-> "?"]
    /\ budget = MaxFiles
    /\ last = NoIteration
    /\ prev = NoIteration

\* handle is entered (lines 105-113): the atomic block opens on the durable store.
StartRun ==
    /\ phase # "running"
    /\ \E u \in BOOLEAN, n \in 1..budget :
          /\ update_existing' = u
          /\ remaining' = n
    /\ phase' = "running"
    /\ db' = committed
    /\ needs_rollback' = FALSE
    /\ last' = NoIteration
    /\ prev' = NoIteration
    /\ UNCHANGED <<runs, committed, schema, budget>>

\* The directory does not exist (lines 110-111): CommandError, nothing is written.
DirectoryNotFound ==
    /\ phase # "running"
    /\ phase' = "fatal"
    /\ db' = committed
    /\ last' = NoIteration /\ prev' = NoIteration
    /\ UNCHANGED <<runs, committed, update_existing, remaining, needs_rollback, schema,
                   budget>>

\* One loop iteration ends (continue, or the end of the try statement).
EndIteration(it) ==
    /\ remaining' = remaining - 1
    /\ budget' = budget - 1
    /\ prev' = last
    /\ last' = it
    /\ UNCHANGED <<runs, committed, phase, update_existing, schema>>

Visiting == phase = "running" /\ remaining > 0

\* Lines 117-127: the entry is no .docx/.pdf, or the reader returned None or "".
SkipFile ==
    /\ Visiting
    /\ \E ext \in {"docx", "pdf", "other"}, text \in {"None", "empty", "text"} :
          ext = "other" \/ text # "text"
    /\ EndIteration(Iteration("ignored", "", "", EmptyObject, db))
    /\ UNCHANGED <<db, needs_rollback>>

\* Lines 130-134: the extraction returned nothing usable.
ExtractionFailed ==
    /\ Visiting
    /\ \E reply \in Replies :
          LET r == call_phi3_for_extraction(reply)
          IN  /\ r.raised = ""
              /\ NotExtracted(r)
              /\ EndIteration(Iteration("failed_extract", "", r.type, r.data, db))
    /\ UNCHANGED <<db, needs_rollback>>

\* Line 130 is outside the try statement: an exception of the extraction leaves
\* the loop and handle; the atomic block rolls the run back.
ExtractionRaises ==
    /\ Visiting
    /\ \E reply \in Replies :
          LET r == call_phi3_for_extraction(reply)
          IN  /\ r.raised # ""
              /\ last' = Iteration("escaped", r.raised, "", EmptyObject, db)
    /\ prev' = last
    /\ phase' = "aborted"
    /\ budget' = budget - 1
    /\ UNCHANGED <<runs, committed, db, update_existing, remaining, needs_rollback,
                   schema>>

\* Lines 136-138 for a truthy value that is no dictionary: .get raises
\* AttributeError, which the except clause reports.
NonObject ==
    /\ Visiting
    /\ \E reply \in Replies :
          LET r == call_phi3_for_extraction(reply)
          IN  /\ r.raised = ""
              /\ r.type = "nonobject"
    /\ EndIteration(Iteration("error", "AttributeError", "nonobject", EmptyObject, db))
    /\ UNCHANGED <<db, needs_rollback>>

\* `nullcols` agrees with what earlier passes have shown of the schema.
Agrees(nullcols) ==
    \A col \in NullCols :
        /\ schema[col] = "null" => col \in nullcols
        /\ schema[col] = "not null" => col \notin nullcols

\* The effect of one pass through the try statement that ended in context c.
Pass(c, data) ==
    /\ db' = c.db
    /\ needs_rollback' = (needs_rollback \/ c.marked)
    /\ schema' = [col \in NullCols |->
                     IF col \notin c.tested THEN schema[col]
                     ELSE IF col \in c.nullcols THEN "null" ELSE "not null"]
    /\ remaining' = remaining - 1
    /\ budget' = budget - 1
    /\ prev' = last
    /\ last' = Iteration(c.outcome, c.exc, "object", data, db)
    /\ UNCHANGED <<runs, committed, phase, update_existing>>

\* Lines 136-219 for a dictionary: the try block, with the except clause.
Reconcile ==
    /\ Visiting
    /\ \E reply \in Replies :
          LET r == call_phi3_for_extraction(reply)
          IN  /\ r.raised = ""
              /\ r.type = "object"
              /\ ~NotExtracted(r)
              /\ \E nullcols \in SUBSET NullCols :
                    LET c == reconcile(db, r.data, update_existing, needs_rollback,
                                       nullcols)
                    IN  /\ Agrees(nullcols)
                        /\ Pass(c, r.data)


\* The process is interrupted between two files: KeyboardInterrupt is no
\* Exception, it leaves handle and the atomic block rolls the run back.
Interrupt ==
    /\ Visiting
    /\ phase' = "aborted"
    /\ UNCHANGED <<runs, committed, db, update_existing, remaining, needs_rollback,
                   schema, budget, last, prev>>

\* Line 221 and the exit of the atomic block: commit, unless marked for rollback.
Finish ==
    /\ phase = "running"
    /\ remaining = 0
    /\ phase' = "complete"
    /\ committed' = IF needs_rollback THEN committed ELSE db
    /\ UNCHANGED <<runs, db, update_existing, remaining, needs_rollback, schema,
                   budget, last, prev>>

Next ==
    \/ StartRun
    \/ DirectoryNotFound
    \/ SkipFile
    \/ ExtractionFailed
    \/ ExtractionRaises
    \/ NonObject
    \/ Reconcile
    \/ Interrupt
    \/ Finish

Spec == Init /\ [][Next]_vars

(***************************************************************************)
(* Runs of the command at the same time.  Each run is one atomic block     *)
(* (line 105) over one document with its own project_id and a list of      *)
(* deliverables; the steps are the statements that get_or_create           *)
(* (line 185) sends to the store: the SELECT, the INSERT under a           *)
(* savepoint, and the SELECT after an IntegrityError.  A run sees the      *)
(* durable rows and its own; the rows it has inserted are `own` until its  *)
(* block is left.                                                          *)
(***************************************************************************)
\* The variables of the single run, which stay as they are.
SeqVars == <<db, phase, update_existing, remaining, needs_rollback, schema,
             budget, last, prev>>

ConcTable == "Deliverable"

\* The deliverables lists of the documents.
DocLists == {<<"A">>, <<"A", "B">>, <<"B", "A">>}

ProjectIdOf(r) == IF r = 1 THEN "P-100" ELSE IF r = 2 THEN "P-200" ELSE "P-300"

InBlock(r) == runs[r].pc \in {"get", "create", "retry", "commit"}

\* The rows a query of run r sees.
Visible(r) == committed.tables[ConcTable] \cup runs[r].own

AllRows == committed.tables[ConcTable] \cup UNION {runs[r].own : r \in RunIds}

\* The name column is unique: an INSERT of a durable name is refused, and an
\* INSERT of a name that run o has inserted and not yet committed waits for
\* the end of o's block.
Refused(name) == \E row \in committed.tables[ConcTable] : row.name = name
Waits(r, o) ==
    /\ o # r
    /\ runs[r].pc = "create"
    /\ ~Refused(Head(runs[r].items))
    /\ \E row \in runs[o].own : row.name = Head(runs[r].items)
Blocked(r) == \E o \in RunIds : Waits(r, o)

\* relation.add(item) (line 186) and the next turn of the for statement.
Linked(run, pk) ==
    [run EXCEPT !.project.m2m[ConcTable] = @ \cup {pk},
                !.items = Tail(@),
                !.pc = IF Tail(run.items) = <<>> THEN "commit" ELSE "get"]

\* The statement raised: the except clause (line 218) ends the document.
Failed(run) == [run EXCEPT !.failed = TRUE, !.items = <<>>, !.pc = "commit"]

\* handle is entered; the project of the document is made (line 143).
ConcBegin(r) ==
    /\ runs[r].pc = "idle"
    /\ \E items \in DocLists :
          runs' = [runs EXCEPT ![r] =
                      [pc |-> "get", doc |-> items, items |-> items, own |-> {},
                       project |-> NewProject(r, ProjectIdOf(r), ""),
                       failed |-> FALSE]]
    /\ UNCHANGED <<committed, SeqVars>>

\* get_or_create: the SELECT by name.
ConcGet(r) ==
    /\ runs[r].pc = "get"
    /\ LET found == {row \in Visible(r) : row.name = Head(runs[r].items)}
       IN  runs' = [runs EXCEPT ![r] =
                       IF found = {} THEN [@ EXCEPT !.pc = "create"]
                       ELSE Linked(@, (CHOOSE row \in found : TRUE).pk)]
    /\ UNCHANGED <<committed, SeqVars>>

\* get_or_create: the INSERT, once no open block holds the name.
ConcCreate(r) ==
    /\ runs[r].pc = "create"
    /\ ~Blocked(r)
    /\ LET name == Head(runs[r].items)
           pk == NextPk(AllRows)
       IN  runs' = [runs EXCEPT ![r] =
                       IF Refused(name) THEN [@ EXCEPT !.pc = "retry"]
                       ELSE Linked([@ EXCEPT !.own = @ \cup {[pk |-> pk, name |-> name]}],
                                   pk)]
    /\ UNCHANGED <<committed, SeqVars>>

\* get_or_create: the SELECT after the IntegrityError of the INSERT.
ConcRetry(r) ==
    /\ runs[r].pc = "retry"
    /\ LET found == {row \in Visible(r) : row.name = Head(runs[r].items)}
       IN  runs' = [runs EXCEPT ![r] =
                       IF found = {} THEN Failed(@)
                       ELSE Linked(@, (CHOOSE row \in found : TRUE).pk)]
    /\ UNCHANGED <<committed, SeqVars>>

\* Two runs wait for each other's rows: the store ends the INSERT of one of
\* them with an error, which is no IntegrityError and leaves get_or_create.
ConcDeadlock(r) ==
    /\ \E o \in RunIds : Waits(r, o) /\ Waits(o, r)
    /\ runs' = [runs EXCEPT ![r] = Failed(@)]
    /\ UNCHANGED <<committed, SeqVars>>

\* Line 221 and the exit of the atomic block.
ConcCommit(r) ==
    /\ runs[r].pc = "commit"
    /\ committed' = [committed EXCEPT !.tables[ConcTable] = @ \cup runs[r].own,
                                      !.Project = @ \cup {runs[r].project}]
    /\ runs' = [runs EXCEPT ![r].pc = "finished", ![r].own = {}]
    /\ UNCHANGED SeqVars

\* The run is interrupted: the atomic block rolls back.
ConcInterrupt(r) ==
    /\ InBlock(r)
    /\ runs' = [runs EXCEPT ![r].pc = "aborted", ![r].own = {}]
    /\ UNCHANGED <<committed, SeqVars>>

ConcInit == Init /\ committed = EmptyStore

ConcNext ==
    \E r \in RunIds :
        \/ ConcBegin(r)
        \/ ConcGet(r)
        \/ ConcCreate(r)
        \/ ConcRetry(r)
        \/ ConcDeadlock(r)
        \/ ConcCommit(r)
        \/ ConcInterrupt(r)

ConcSpec == ConcInit /\ [][ConcNext]_vars

(***************************************************************************)
(* Vocabulary of the properties.                                           *)
(***************************************************************************)
Reconciled(it) == it.outcome \in {"created", "updated"}

ProjectsOf(store, project_id) == {p \in store.Project : p.project_id = project_id}

\* The row of a project in a store; NoProject when the store has none.
RowOf(store, project_id) ==
    IF ProjectsOf(store, project_id) = {} THEN NoProject
    ELSE CHOOSE p \in ProjectsOf(store, project_id) : TRUE

RowsNamed(store, table, name) == {r \in store.tables[table] : r.name = name}
NamesOf(store, table, pks) == {r.name : r \in {x \in store.tables[table] : x.pk \in pks}}
Elements(items) == {items[i] : i \in 1..Len(items)}

\* The project the last iteration was about, before and after it.
Before == RowOf(last.before, last.data.project_id)
After == RowOf(db, last.data.project_id)

\* The iteration that ended last without leaving the loop.
LastDone == IF last.outcome = "escaped" THEN prev ELSE last

(***************************************************************************)
(* C1.  Per-document atomicity: when the except clause has caught an error *)
(* of a document, the store holds none of that document's changes: it is   *)
(* as it was when the document was started.                                *)
(***************************************************************************)
C1_PerDocumentAtomicity == last.outcome = "error" => db = last.before

(***************************************************************************)
(* C2.  Committed documents stay committed: when a run stops abnormally    *)
(* after a document was reconciled, the project row written for that       *)
(* document is in the durable store.                                       *)
(***************************************************************************)
C2_CommittedStayCommitted ==
    (phase = "aborted" /\ Reconciled(LastDone)) =>
        \A p \in ProjectsOf(db, LastDone.data.project_id) : p \in committed.Project

(***************************************************************************)
(* C3.  Failure isolation: no failure of a file leaves the batch loop; a   *)
(* run is never ended by the exception of one of its files.                *)
(***************************************************************************)
C3_FailureIsolation == ~(phase = "aborted" /\ last.outcome = "escaped")

(***************************************************************************)
(* C4.  Idempotence under update: when the same dictionary is processed    *)
(* twice in a row with update enabled, the second pass leaves the store    *)
(* exactly as the first pass left it (project fields, references, relation *)
(* sets and lookup rows).                                                  *)
(***************************************************************************)
C4_IdempotentUnderUpdate ==
    (/\ update_existing
     /\ prev.extracted = "object" /\ last.extracted = "object"
     /\ prev.data = last.data) => db = last.before

C4_Witness ==
    /\ update_existing
    /\ prev.data = last.data
    /\ prev.outcome = "updated" /\ last.outcome = "updated"
    /\ last.data.deliverables = L(<<"A", "B">>)
    /\ NamesOf(db, "Deliverable", After.m2m["Deliverable"]) = {"A", "B"}
    /\ NamesOf(db, "Ingredient", After.m2m["Ingredient"]) = {"Compound A", "Compound B"}
    /\ db = last.before

(***************************************************************************)
(* C5.  Relation replace-on-present, preserve-on-absent: after a document  *)
(* was reconciled, each many-to-many relation for which it gave a          *)
(* non-empty list holds exactly the rows of the listed names, and each     *)
(* relation for which the list was empty, null or missing is as before.    *)
(***************************************************************************)
C5_ReplaceOrPreserve ==
    Reconciled(last) =>
        \A t \in M2MSet :
            LET lv == last.data[KeyOf[t]]
            IN  IF lv.kind = "list" /\ Len(lv.items) > 0
                THEN /\ NamesOf(db, t, After.m2m[t]) = Elements(lv.items)
                     /\ Cardinality(After.m2m[t]) = Cardinality(Elements(lv.items))
                ELSE After.m2m[t] = Before.m2m[t]

C5_Witness ==
    /\ last.outcome = "updated"
    /\ NamesOf(last.before, "Deliverable", Before.m2m["Deliverable"]) = {"A", "B"}
    /\ last.data.deliverables = L(<<"C">>)
    /\ NamesOf(db, "Deliverable", After.m2m["Deliverable"]) = {"C"}
    /\ Before.m2m["Ingredient"] # {}
    /\ After.m2m["Ingredient"] = Before.m2m["Ingredient"]

(***************************************************************************)
(* C6.  Scalar preserve-on-absent: when an existing project was updated,   *)
(* a name or status that the dictionary lacks or gives as null is          *)
(* unchanged, and the stored value changes only when the dictionary gives  *)
(* a non-empty string.                                                     *)
(***************************************************************************)
C6_ScalarPreserveOnAbsent ==
    last.outcome = "updated" =>
        \A col \in {"project_name", "project_status"} :
            /\ last.data[col] \in {MISSING, None} => After[col] = Before[col]
            /\ After[col] # Before[col] => Truthy(last.data[col])

(***************************************************************************)
(* C7.  No duplicate dictionaries: no lookup table ever holds two rows of  *)
(* one name; after a document was reconciled every name it gave has        *)
(* exactly one row, which the project references; and two projects that    *)
(* reference the same name reference the same row.                         *)
(***************************************************************************)
OneRowPerName(store) ==
    \A t \in LookupTables :
        \A r1, r2 \in store.tables[t] :
            (r1.name = r2.name \/ r1.pk = r2.pk) => r1 = r2

ReferencesGivenNames ==
    /\ \A t \in FKSet :
          LET name == last.data[KeyOf[t]]
          IN  Truthy(name) =>
                 /\ Cardinality(RowsNamed(db, t, name)) = 1
                 /\ \A r \in RowsNamed(db, t, name) : After.fk[t] = r.pk
    /\ \A t \in M2MSet :
          LET lv == last.data[KeyOf[t]]
          IN  \A name \in Elements(lv.items) :
                 /\ Cardinality(RowsNamed(db, t, name)) = 1
                 /\ \A r \in RowsNamed(db, t, name) : r.pk \in After.m2m[t]

SameNameSameRow(store) ==
    \A p1, p2 \in store.Project :
        /\ \A t \in FKSet :
              (p1.fk[t] # 0 /\ p2.fk[t] # 0 /\
               NamesOf(store, t, {p1.fk[t]}) = NamesOf(store, t, {p2.fk[t]}))
                  => p1.fk[t] = p2.fk[t]
        /\ \A t \in M2MSet :
              \A k1 \in p1.m2m[t], k2 \in p2.m2m[t] :
                  NamesOf(store, t, {k1}) = NamesOf(store, t, {k2}) => k1 = k2

C7_NoDuplicateDictionaries ==
    /\ OneRowPerName(db) /\ OneRowPerName(committed)
    /\ SameNameSameRow(db) /\ SameNameSameRow(committed)
    /\ Reconciled(last) => ReferencesGivenNames

C7_Witness ==
    /\ phase = "complete"
    /\ Cardinality(committed.tables["Sponsor"]) = 1
    /\ \E p1, p2 \in committed.Project :
          /\ p1.project_id = "P-100" /\ p2.project_id = "P-200"
          /\ p1.fk["Sponsor"] # 0
          /\ p1.fk["Sponsor"] = p2.fk["Sponsor"]
    /\ last.outcome = "created"
    /\ last.data.sponsor_name = "Acme"

(***************************************************************************)
(* C8.  Consistent name normalization: names that differ only in letter    *)
(* case or surrounding whitespace do not make two rows of a lookup table.  *)
(***************************************************************************)
\* The name with its letters folded to lower case and its ends trimmed, for
\* the names the dictionaries of the model give.
Normalized(name) ==
    CASE name \in {"Acme", "ACME"} -> "acme"
      [] OTHER -> name

C8_ConsistentNormalization ==
    \A t \in LookupTables :
        \A r1, r2 \in db.tables[t] :
            Normalized(r1.name) = Normalized(r2.name) => r1 = r2

(***************************************************************************)
(* C9.  Missing-identifier skip.  As claimed: a dictionary without a       *)
(* project_id (missing, null or empty, the empty dictionary included)      *)
(* changes nothing in the store and is reported as skipped.                *)
(***************************************************************************)
C9_MissingIdentifierSkipped ==
    (last.extracted = "object" /\ ~Truthy(last.data.project_id)) =>
        /\ db = last.before
        /\ last.outcome = "skipped_no_id"

(***************************************************************************)
(* C9, amended.  A dictionary without a project_id changes nothing in the  *)
(* store; it is reported as skipped when it has some key, and as a failed  *)
(* extraction when it is the empty dictionary.                             *)
(***************************************************************************)
C9_MissingIdentifierNoWrite ==
    (last.extracted = "object" /\ ~Truthy(last.data.project_id)) =>
        /\ db = last.before
        /\ last.outcome =
              IF IsEmptyDict(last.data) THEN "failed_extract" ELSE "skipped_no_id"

C9_Witness ==
    /\ last.extracted = "object"
    /\ last.data.project_id = None
    /\ last.data.sponsor_name = "Acme"
    /\ last.outcome = "skipped_no_id"
    /\ db = last.before

OneRowPerProject(store) ==
    \A p1, p2 \in store.Project :
        (p1.project_id = p2.project_id \/ p1.pk = p2.pk) => p1 = p2

C11_ProjectIdentity ==
    /\ OneRowPerProject(db) /\ OneRowPerProject(committed)
    /\ (/\ last.extracted = "object"
        /\ Truthy(last.data.project_id)
        /\ ProjectsOf(last.before, last.data.project_id) # {}) =>
           /\ Cardinality(db.Project) = Cardinality(last.before.Project)
           /\ last.outcome \in {"updated", "skipped_exists", "error"}

C11_Witness ==
    /\ last.outcome = "updated"
    /\ prev.outcome = "created"
    /\ prev.data.project_id = "P-100" /\ last.data.project_id = "P-100"
    /\ last.data.project_name = "Trial Y"
    /\ Cardinality(db.Project) = 1
    /\ Cardinality(ProjectsOf(db, "P-100")) = 1
    /\ After.project_name = "Trial Y"

(***************************************************************************)
(* C13.  Single-valued relation application: after a document was          *)
(* reconciled, each of sponsor, responsible party and route of             *)
(* administration for which it gave a non-empty name refers to the row of  *)
(* that name in its lookup table, and each for which the name was missing, *)
(* null or empty refers to what it referred to before.                     *)
(***************************************************************************)
C13_SingleValuedRelation ==
    Reconciled(last) =>
        \A t \in FKSet :
            LET name == last.data[KeyOf[t]]
            IN  IF Truthy(name)
                THEN /\ After.fk[t] # 0
                     /\ After.fk[t] \in {r.pk : r \in RowsNamed(db, t, name)}
                ELSE After.fk[t] = Before.fk[t]

C13_Witness ==
    /\ last.outcome = "updated"
    /\ last.data.sponsor_name = "ACME"
    /\ NamesOf(last.before, "Sponsor", {Before.fk["Sponsor"]}) = {"Acme"}
    /\ RowsNamed(last.before, "Sponsor", "ACME") = {}
    /\ NamesOf(db, "Sponsor", {After.fk["Sponsor"]}) = {"ACME"}
    /\ NamesOf(db, "ResponsibleParty", {After.fk["ResponsibleParty"]}) = {"Dr. Roe"}
    /\ After.fk["ResponsibleParty"] = Before.fk["ResponsibleParty"]

(***************************************************************************)
(* C14.  Create with absent name: a dictionary that is well formed but for *)
(* its project_name, which is missing or null, and whose project_id is not *)
(* yet stored, makes a Project row with the empty string as its name and   *)
(* is reported as created.                                                 *)
(***************************************************************************)
\* The dictionary gives nothing beside project_id and project_name.
OnlyIdAndName(data) == data = [Base(data.project_id) EXCEPT !.project_name = data.project_name]

C14_CreateWithAbsentName ==
    (/\ last.extracted = "object"
     /\ last.exc # "TransactionManagementError"
     /\ OnlyIdAndName(last.data)
     /\ Truthy(last.data.project_id)
     /\ last.data.project_name \in {MISSING, None}
     /\ ProjectsOf(last.before, last.data.project_id) = {}) =>
        /\ last.outcome = "created"
        /\ Cardinality(ProjectsOf(db, last.data.project_id)) = 1
        /\ After.project_name = ""

(***************************************************************************)
(* C15.  List-field validation: when a dictionary with a project_id was    *)
(* taken through the relation steps, each relation whose value is an array *)
(* with string elements holds exactly the rows of those strings and the    *)
(* document went through, and each relation whose value is no array, or an *)
(* array without a string, is as it was before.                            *)
(***************************************************************************)
\* The elements of a list value that are strings.
StringsOf(lv) == IF lv.kind = "list" THEN Elements(lv.items) \ {None} ELSE {}

C15_ListFieldValidation ==
    (/\ last.extracted = "object"
     /\ last.outcome \in {"created", "updated", "error"}
     /\ last.exc # "TransactionManagementError"
     /\ last.data.project_name # None /\ last.data.project_status # None) =>
        \A t \in M2MSet :
            LET lv == last.data[KeyOf[t]]
            IN  IF StringsOf(lv) # {}
                THEN /\ Reconciled(last)
                     /\ NamesOf(db, t, After.m2m[t]) = StringsOf(lv)
                ELSE After.m2m[t] = Before.m2m[t]

(***************************************************************************)
(* C16.  Non-object response is an extraction failure: when the extraction *)
(* gave no dictionary (the response was no valid JSON, or was JSON null,   *)
(* an array, a string or a number), the document is reported as a failed   *)
(* extraction, the try block is not entered for it, and the store is       *)
(* unchanged.                                                              *)
(***************************************************************************)
C16_NonObjectIsExtractionFailure ==
    last.extracted \in {"None", "falsy", "nonobject"} =>
        /\ last.outcome = "failed_extract"
        /\ last.exc = ""
        /\ db = last.before

(***************************************************************************)
(* C17.  Lookup rows are never removed: no step takes a row out of a       *)
(* lookup table of the durable store, no step of a running transaction     *)
(* takes a row out of a lookup table, and the pass over one document       *)
(* leaves the rows of the other projects, their links included, as they    *)
(* were.                                                                   *)
(***************************************************************************)
LookupRowsKept(s1, s2) == \A t \in LookupTables : s1.tables[t] \subseteq s2.tables[t]

C17_Step ==
    /\ LookupRowsKept(committed, committed')
    /\ (phase = "running" /\ phase' = "running") =>
          /\ LookupRowsKept(db, db')
          /\ \A p \in db.Project :
                p.project_id # last'.data.project_id => p \in db'.Project

C17_LookupRowsNeverRemoved == [][C17_Step]_vars

C17_Witness ==
    /\ last.outcome = "updated"
    /\ last.data.project_id = "P-100"
    /\ NamesOf(last.before, "Ingredient", Before.m2m["Ingredient"])
          = {"Compound A", "Compound B"}
    /\ NamesOf(db, "Ingredient", After.m2m["Ingredient"]) = {"Compound A"}
    /\ RowsNamed(db, "Ingredient", "Compound B") = RowsNamed(last.before, "Ingredient", "Compound B")
    /\ NamesOf(db, "Ingredient", RowOf(db, "P-200").m2m["Ingredient"]) = {"Compound B"}
    /\ RowOf(db, "P-200") = RowOf(last.before, "P-200")

(***************************************************************************)
(* C18.  First document wins without update: with the update flag off,     *)
(* when a document has created a project and the next document of the run  *)
(* carries the same project_id, the later one is reported as skipped and   *)
(* the store stays as the first one left it, with the name and the         *)
(* references and relations the first one gave.                            *)
(***************************************************************************)
\* The project row holds what the dictionary gave.
Reflects(store, row, data) ==
    /\ Truthy(data.project_name) => row.project_name = data.project_name
    /\ \A t \in FKSet :
          Truthy(data[KeyOf[t]]) => NamesOf(store, t, {row.fk[t]}) = {data[KeyOf[t]]}
    /\ \A t \in M2MSet :
          TruthyList(data[KeyOf[t]]) =>
              NamesOf(store, t, row.m2m[t]) = Elements(data[KeyOf[t]].items)

C18_FirstDocumentWins ==
    (/\ ~update_existing
     /\ prev.outcome = "created"
     /\ last.extracted = "object"
     /\ last.data.project_id = prev.data.project_id) =>
        /\ last.outcome = "skipped_exists"
        /\ db = last.before
        /\ Cardinality(ProjectsOf(db, prev.data.project_id)) = 1
        /\ Reflects(db, After, prev.data)

C18_Witness ==
    /\ ~update_existing
    /\ prev.outcome = "created" /\ last.outcome = "skipped_exists"
    /\ prev.data = [Base("P-200") EXCEPT !.sponsor_name = "Acme"]
    /\ last.data = [Base("P-200") EXCEPT !.sponsor_name = "ACME"]
    /\ NamesOf(db, "Sponsor", {After.fk["Sponsor"]}) = {"Acme"}
    /\ RowsNamed(db, "Sponsor", "ACME") = {}

(***************************************************************************)
(* C12.  Race-safe get-or-create: when runs resolve the same new name at   *)
(* the same time, the durable table never holds two rows of one name, no   *)
(* run's document fails, and each finished run's project is linked to the  *)
(* durable row of every name its document listed.                          *)
(***************************************************************************)
C12_RaceSafeGetOrCreate ==
    /\ \A row1, row2 \in committed.tables[ConcTable] :
          row1.name = row2.name => row1 = row2
    /\ \A r \in RunIds :
          /\ ~runs[r].failed
          /\ runs[r].pc = "finished" =>
                /\ runs[r].project.m2m[ConcTable]
                      \subseteq {row.pk : row \in committed.tables[ConcTable]}
                /\ NamesOf(committed, ConcTable, runs[r].project.m2m[ConcTable])
                      = Elements(runs[r].doc)

====
